---- MODULE Spec2Model ----
(***************************************************************************)
(* The /parallels/ endpoints of apitess (apitess/parallels.py):            *)
(* submit_search, retrieve_status and retrieve_results, together with the  *)
(* bounded job queue they feed and the Store the Worker writes to.         *)
(*                                                                         *)
(* JSON objects (Python dicts) are functions whose domain is the set of    *)
(* keys present.  Formatted text is a sequence of string tokens, so that   *)
(* str.format and str.join are modelled by what they concatenate.          *)
(***************************************************************************)
EXTENDS Integers, Sequences, FiniteSets, TLC

VARIABLES
    queue,           \* flask.g.searcher's bounded FIFO of (results_id, name, params)
    results_status,  \* Store collection ResultsStatus, in Store order
    match_sets,      \* Store collection MatchSet, in Store order
    matches,         \* Store collection Match, in Store order
    request,         \* the call a handler has just served
    response,        \* what that handler returned (or the fault it raised)
    admitted,        \* results_ids of the calls answered 201, in order
    rejected,        \* results_ids generated by calls that met queue.Full
    taken            \* jobs the Worker has dequeued

vars == <<queue, results_status, match_sets, matches, request, response,
          admitted, rejected, taken>>

store == <<results_status, match_sets, matches>>

(***************************************************************************)
(* Bounds of the model.                                                    *)
(***************************************************************************)
QueueCap == 1        \* maxsize of the job queue
MaxJobs == 2         \* how many results_ids uuid4 hands out in a run
MaxRecords == 2      \* how many records the Worker inserts in the Store in a run
MaxStoredStatus == 1 \* ResultsStatus records of a Store found at start-up
MaxStoredMatches == 3 \* Match records of a Store found at start-up
MaxThreads == 2      \* request threads that serve submit_search side by side

\* the values uuid.uuid4().hex can take in a run
JobIds == {ToString(i) : i \in 1..MaxJobs}

(***************************************************************************)
(* Generic helpers for dicts and sequences.                                *)
(***************************************************************************)
Range(s) == {s[i] : i \in DOMAIN s}

\* every listing of the set S, each element once: the orders in which
\* iterating a Python set can yield its elements
Orderings(S) ==
    {s \in [1..Cardinality(S) -> S] : \A i, j \in 1..Cardinality(S) : s[i] = s[j] => i = j}

RECURSIVE Join(_, _)
\* sep.join(parts), every part a token sequence
Join(sep, parts) ==
    IF parts = <<>> THEN <<>>
    ELSE IF Len(parts) = 1 THEN parts[1]
    ELSE parts[1] \o <<sep>> \o Join(sep, Tail(parts))

\* the list of one-token parts made from a list of strings
Parts(strs) == [i \in DOMAIN strs |-> <<strs[i]>>]

(***************************************************************************)
(* The Store's texts and the bson ObjectId constructor.                    *)
(***************************************************************************)
None == "None"

\* ids of the Text documents in the Store
TextIds == {"t1", "t2"}
\* strings bson rejects; any other string of the model is a well-formed
\* ObjectId, and one outside TextIds matches no text
MalformedIds == {"zz"}

Text(id) == [id |-> id, collection |-> "texts"]
texts == <<Text("t1"), Text("t2")>>

\* ObjectId.is_valid
IsValidObjectId(oid) == oid \notin MalformedIds

\* ObjectId(None) generates a new id, equal to no stored one
GeneratedObjectId == "generated"
ObjectId(oid) == IF oid = None THEN GeneratedObjectId ELSE oid

\* flask.g.db.find(collection, field=value) and (field=[values])
find(collection, field, values) ==
    SelectSeq(collection, LAMBDA doc : doc[field] \in values)

(***************************************************************************)
(* Responses.                                                              *)
(***************************************************************************)
\* apitess.errors.error(status_code, **kwargs): the kwargs as a JSON body
error(status_code, data, message) ==
    [kind |-> "error", status_code |-> status_code, data |-> data, message |-> message]

\* an exception that leaves the handler (Flask answers it with a bare 500)
fault(exception) == [kind |-> "fault", exception |-> exception]

\* os.path.join(a, b, c): a separator between components unless one is there
PathJoin(a, b, c) ==
    LET ab == IF a[Len(a)] = "/" THEN a \o <<b>> ELSE a \o <<"/", b>>
    IN  IF c = "" THEN (IF ab[Len(ab)] = "/" THEN ab ELSE ab \o <<"/">>)
        ELSE (IF ab[Len(ab)] = "/" THEN ab \o <<c>> ELSE ab \o <<"/", c>>)

url_prefix == <<"/parallels">>

(***************************************************************************)
(* submit_search: validation.                                              *)
(***************************************************************************)
\* _validate_units without the check of the units value
_validate_units_any_units(specs, name) ==
    (IF "object_id" \notin DOMAIN specs
     THEN << <<name, " is missing object_id.">> >> ELSE <<>>)
        \o (IF "units" \notin DOMAIN specs
            THEN << <<name, " is missing units.">> >> ELSE <<>>)

\* _validate_units reporting the side, but not the value it rejects
_validate_units_unnamed_value(specs, name) ==
    (IF "object_id" \notin DOMAIN specs
     THEN << <<name, " is missing object_id.">> >> ELSE <<>>)
        \o (IF "units" \notin DOMAIN specs
            THEN << <<name, " is missing units.">> >>
            ELSE IF specs["units"] # "line" /\ specs["units"] # "phrase"
                 THEN << <<name, " has unrecognized units.">> >>
                 ELSE <<>>)

_validate_units(specs, name) ==
    LET r1 == IF "object_id" \notin DOMAIN specs
              THEN << <<name, " is missing object_id.">> >> ELSE <<>>
        r2 == IF "units" \notin DOMAIN specs
              THEN << <<name, " is missing units.">> >>
              ELSE IF specs["units"] # "line" /\ specs["units"] # "phrase"
                   THEN << <<name, " has unrecognized units: ", specs["units"]>> >>
                   ELSE <<>>
    IN  r1 \o r2

requireds == {"source", "target", "method"}

method_requireds ==
    [n \in {"original"} |->
        {"name", "feature", "stopwords", "freq_basis", "max_distance", "distance_basis"}]

\* a listing of every required key as soon as one is missing
missing_keys_all(required, d) ==
    IF required \subseteq DOMAIN d THEN {} ELSE required

\* the keys of `required` that dict d lacks
missing_keys(required, d) == required \ DOMAIN d

\* unit errors that stop at the first side found wrong
unit_errors_first_side(received) ==
    IF _validate_units(received["source"], "source") # <<>>
    THEN _validate_units(received["source"], "source")
    ELSE _validate_units(received["target"], "target")

\* the source and target errors of the unit specification stage
unit_errors(received) ==
    _validate_units(received["source"], "source")
        \o _validate_units(received["target"], "target")

\* the texts found for the two object ids, keyed by str(t.id)
found_texts(received) ==
    LET results == find(texts, "id", {ObjectId(received["source"]["object_id"]),
                                      ObjectId(received["target"]["object_id"])})
    IN  [i \in {results[k].id : k \in DOMAIN results} |->
            CHOOSE t \in Range(results) : t.id = i]

\* the object ids listed as not found: source first, then target
unresolved(received) ==
    LET results == found_texts(received)
        s == received["source"]["object_id"]
        t == received["target"]["object_id"]
    IN  (IF s \notin DOMAIN results THEN <<s>> ELSE <<>>)
            \o (IF t \notin DOMAIN results THEN <<t>> ELSE <<>>)

\* whether the payload gets as far as the required-parameter loop of line 101
reaches_method_loop(received) ==
    /\ missing_keys(requireds, received) = {}
    /\ unit_errors(received) = <<>>
    /\ IsValidObjectId(received["source"]["object_id"])
    /\ IsValidObjectId(received["target"]["object_id"])
    /\ unresolved(received) = <<>>
    /\ "name" \in DOMAIN received["method"]
    /\ received["method"]["name"] \in DOMAIN method_requireds

\* the parameters of the method that the payload lacks
method_missing_keys(received) ==
    IF reaches_method_loop(received)
    THEN missing_keys(method_requireds[received["method"]["name"]], received["method"])
    ELSE {}

\* search parameters that take the unit type from the target
descriptor_target_units(received) ==
    LET results == found_texts(received)
        method == received["method"]
    IN  [texts |-> <<results[received["source"]["object_id"]],
                     results[received["target"]["object_id"]]>>,
         unit_type |-> received["target"]["units"],
         feature |-> method["feature"],
         stopwords |-> method["stopwords"],
         frequency_basis |-> method["freq_basis"],
         max_distance |-> method["max_distance"],
         distance_metric |-> method["distance_basis"]]

\* the search parameters handed to queue_search
descriptor(received) ==
    LET results == found_texts(received)
        method == received["method"]
    IN  [texts |-> <<results[received["source"]["object_id"]],
                     results[received["target"]["object_id"]]>>,
         unit_type |-> received["source"]["units"],
         feature |-> method["feature"],
         stopwords |-> method["stopwords"],
         frequency_basis |-> method["freq_basis"],
         max_distance |-> method["max_distance"],
         distance_metric |-> method["distance_basis"]]

\* a validation that looks for the method name before the unit specs
validate_method_first(received, missing, method_missing) ==
    IF missing # <<>>
    THEN error(400, received,
               <<"The request data payload is missing the following required key(s): ">>
                   \o Join(", ", Parts(missing)))
    ELSE IF "name" \notin DOMAIN received["method"]
    THEN error(400, received, <<"No specified method name.">>)
    ELSE IF unit_errors(received) # <<>>
    THEN error(400, received,
               <<"The following errors were found in source and target unit specifications:\n">>
                   \o Join("\n\t", unit_errors(received)))
    ELSE IF ~IsValidObjectId(received["source"]["object_id"])
            \/ ~IsValidObjectId(received["target"]["object_id"])
    THEN fault("InvalidId")
    ELSE IF unresolved(received) # <<>>
    THEN error(400, received,
               <<"Unable to find the following object_id(s) among the texts in the database:\n\t">>
                   \o Join("\n\t", Parts(unresolved(received))))
    ELSE IF "name" \notin DOMAIN received["method"]
    THEN error(400, received, <<"No specified method name.">>)
    ELSE IF received["method"]["name"] \notin DOMAIN method_requireds
    THEN fault("KeyError")
    ELSE IF method_missing # <<>>
    THEN error(400, received,
               <<"The specified method is missing the following required key(s): ">>
                   \o Join(", ", Parts(method_missing)))
    ELSE [kind |-> "valid"]

\* What submit_search returns before it touches the queue, or "valid".
\* missing and method_missing are the two missing lists in the order the
\* set iteration produced them.
validate(received, missing, method_missing) ==
    IF missing # <<>>
    THEN error(400, received,
               <<"The request data payload is missing the following required key(s): ">>
                   \o Join(", ", Parts(missing)))
    ELSE IF unit_errors(received) # <<>>
    THEN error(400, received,
               <<"The following errors were found in source and target unit specifications:\n">>
                   \o Join("\n\t", unit_errors(received)))
    ELSE IF ~IsValidObjectId(received["source"]["object_id"])
            \/ ~IsValidObjectId(received["target"]["object_id"])
    THEN fault("InvalidId")
    ELSE IF unresolved(received) # <<>>
    THEN error(400, received,
               <<"Unable to find the following object_id(s) among the texts in the database:\n\t">>
                   \o Join("\n\t", Parts(unresolved(received))))
    ELSE IF "name" \notin DOMAIN received["method"]
    THEN error(400, received, <<"No specified method name.">>)
    ELSE IF received["method"]["name"] \notin DOMAIN method_requireds
    THEN fault("KeyError")
    ELSE IF method_missing # <<>>
    THEN error(400, received,
               <<"The specified method is missing the following required key(s): ">>
                   \o Join(", ", Parts(method_missing)))
    ELSE [kind |-> "valid"]

(***************************************************************************)
(* submit_search: admission.                                               *)
(***************************************************************************)
\* an identifier source that can hand out a token it handed out before
uuid4_repeating == JobIds

\* an identifier source that is not random at all
uuid4_constant == {ToString(1)}

\* uuid.uuid4().hex: a random 128-bit token; the model takes a draw to be a
\* token no earlier draw produced
uuid4 == JobIds \ (Range(admitted) \cup rejected)

\* the job submit_search hands to queue_search
job_of(results_id, received) ==
    [results_id |-> results_id,
     name |-> received["method"]["name"],
     params |-> descriptor(received)]

\* flask.g.searcher.queue_search: one put_nowait on the bounded queue, which
\* raises queue.Full at capacity
queue_search(q, job) ==
    IF Len(q) >= QueueCap
    THEN [full |-> TRUE, queue |-> q]
    ELSE [full |-> FALSE, queue |-> Append(q, job)]

\* a 201 whose Location was joined without the final empty component
created_no_trailing_separator(results_id) ==
    [kind |-> "created", status_code |-> 201, status |-> "201 Created",
     headers |-> [Location |-> url_prefix \o <<"/", results_id>>]]

\* the 201 response built on lines 110-115
created(results_id) ==
    [kind |-> "created", status_code |-> 201, status |-> "201 Created",
     headers |-> [Location |-> PathJoin(url_prefix, results_id, "")]]

\* what the handler does when queue_search raises queue.Full: line 128 names
\* apitess.error, a module that is not imported (the import is apitess.errors)
on_queue_full(received) == fault("AttributeError")

NoCall == [op |-> "none"]
NoResponse == [kind |-> "none"]

\* POST /parallels/
submit_search(received) ==
    \E missing \in Orderings(missing_keys(requireds, received)),
       method_missing \in Orderings(method_missing_keys(received)),
       results_id \in (IF uuid4 = {} THEN {None} ELSE uuid4) :
        LET checked == validate(received, missing, method_missing)
            put == queue_search(queue, job_of(results_id, received))
        IN  /\ request = NoCall
            /\ request' = [op |-> "submit_search", arg |-> received]
            /\ IF checked.kind # "valid"
               THEN /\ response' = checked
                    /\ UNCHANGED <<queue, admitted, rejected>>
               ELSE /\ results_id # None
                    /\ queue' = put.queue
                    /\ IF put.full
                       THEN /\ response' = on_queue_full(received)
                            /\ rejected' = rejected \cup {results_id}
                            /\ UNCHANGED admitted
                       ELSE /\ response' = created(results_id)
                            /\ admitted' = Append(admitted, results_id)
                            /\ UNCHANGED rejected
            /\ UNCHANGED <<store, taken>>

(***************************************************************************)
(* flask.json.dumps, str.encode and gzip.compress, with their inverses.    *)
(* Text is a sequence of tokens: punctuation, or a string literal.         *)
(***************************************************************************)
Punct(c) == [t |-> c, v |-> ""]
Str(s) == [t |-> "str", v |-> s]

\* every key a JSON object of the model can have, in sorted order
\* (flask.json.dumps sorts keys)
SortedKeys == <<"data", "feature", "match_set", "object_id", "parallels",
                "text", "unit_type">>

KeysOf(d) == SelectSeq(SortedKeys, LAMBDA k : k \in DOMAIN d)

dumps_str(s) == <<Str(s)>>

RECURSIVE dumps_members(_, _)
\* the members of object d, whose values are strings, for the keys ks
dumps_members(d, ks) ==
    IF ks = <<>> THEN <<>>
    ELSE <<Str(ks[1]), Punct(":")>> \o dumps_str(d[ks[1]])
            \o (IF Len(ks) = 1 THEN <<>>
                ELSE <<Punct(",")>> \o dumps_members(d, Tail(ks)))

\* an object whose values are strings
dumps_flat(d) ==
    <<Punct("{")>> \o dumps_members(d, KeysOf(d)) \o <<Punct("}")>>

RECURSIVE dumps_elements(_)
dumps_elements(xs) ==
    IF xs = <<>> THEN <<>>
    ELSE dumps_flat(xs[1])
            \o (IF Len(xs) = 1 THEN <<>>
                ELSE <<Punct(",")>> \o dumps_elements(Tail(xs)))

\* a list of such objects
dumps_list(xs) == <<Punct("[")>> \o dumps_elements(xs) \o <<Punct("]")>>

\* flask.json.dumps({'data': params, 'parallels': matches})
dumps(payload) ==
    <<Punct("{"), Str("data"), Punct(":")>> \o dumps_flat(payload["data"])
        \o <<Punct(","), Str("parallels"), Punct(":")>> \o dumps_list(payload["parallels"])
        \o <<Punct("}")>>

RECURSIVE parse_value(_, _), parse_members(_, _, _), parse_elements(_, _, _)
\* json.loads by recursive descent: the value that starts at token i, and
\* the index of the token after it
parse_value(toks, i) ==
    IF toks[i].t = "str" THEN [v |-> toks[i].v, n |-> i + 1]
    ELSE IF toks[i].t = "{" THEN parse_members(toks, i + 1, <<>>)
    ELSE parse_elements(toks, i + 1, <<>>)

\* members of an object, i at a key or at the closing brace; acc holds the
\* <<key, value>> pairs read so far
parse_members(toks, i, acc) ==
    IF toks[i].t = "}"
    THEN [v |-> [k \in {acc[j][1] : j \in DOMAIN acc} |->
                    acc[CHOOSE j \in DOMAIN acc :
                            /\ acc[j][1] = k
                            /\ \A j2 \in DOMAIN acc : j2 > j => acc[j2][1] # k][2]],
          n |-> i + 1]
    ELSE IF toks[i].t = ","
    THEN parse_members(toks, i + 1, acc)
    ELSE LET item == parse_value(toks, i + 2)
         IN  parse_members(toks, item.n, Append(acc, <<toks[i].v, item.v>>))

parse_elements(toks, i, acc) ==
    IF toks[i].t = "]" THEN [v |-> acc, n |-> i + 1]
    ELSE IF toks[i].t = "," THEN parse_elements(toks, i + 1, acc)
    ELSE LET item == parse_value(toks, i)
         IN  parse_elements(toks, item.n, Append(acc, item.v))

loads(toks) == parse_value(toks, 1).v

\* str.encode() and bytes.decode(): text to UTF-8 bytes and back
encode(text) == [i \in DOMAIN text |-> [utf8 |-> text[i]]]
decode(bytes) == [i \in DOMAIN bytes |-> bytes[i].utf8]

\* the lossless coding inside gzip, as a dictionary coding: the distinct
\* bytes in order of first occurrence, and for each byte its place in them
deflate(bytes) ==
    LET firsts == {i \in DOMAIN bytes : \A j \in 1..(i - 1) : bytes[j] # bytes[i]}
        nth(k) == CHOOSE i \in firsts : Cardinality({j \in firsts : j < i}) = k - 1
        dict == [k \in 1..Cardinality(firsts) |-> bytes[nth(k)]]
    IN  [dict |-> dict,
         refs |-> [i \in DOMAIN bytes |-> CHOOSE k \in DOMAIN dict : dict[k] = bytes[i]]]

inflate(coded) == [i \in DOMAIN coded.refs |-> coded.dict[coded.refs[i]]]

\* gzip.compress and gzip.decompress: a header, the coded data, the length
compress(bytes) == [magic |-> "1f8b", data |-> deflate(bytes), isize |-> Len(bytes)]
decompress(z) == inflate(z.data)

(***************************************************************************)
(* retrieve_status and retrieve_results.                                   *)
(***************************************************************************)
not_found(body) == [kind |-> "text", status_code |-> 404, body |-> body]

\* flask.jsonify(**kwargs)
jsonify(results_id, status, message) ==
    [kind |-> "json", status_code |-> 200,
     body |-> [results_id |-> results_id, status |-> status, message |-> message]]

\* Entity.json_encode(): the record's fields, its id as object_id
json_encode(m) ==
    [object_id |-> m.id, match_set |-> m.match_set, text |-> m.text]

\* a status handler that answers an unknown id with a placeholder status
status_response_placeholder(results_id) ==
    LET results_status_found == find(results_status, "results_id", {results_id})
    IN  IF results_status_found = <<>>
        THEN jsonify(results_id, "Queued", "")
        ELSE jsonify(results_status_found[1].results_id,
                     results_status_found[1].status,
                     results_status_found[1].msg)

\* a status handler that tells a job it knows of from an unknown identifier
status_response_pending(results_id) ==
    LET results_status_found == find(results_status, "results_id", {results_id})
    IN  IF results_status_found = <<>>
        THEN IF results_id \in Range(admitted)
             THEN not_found("Results are not ready")
             ELSE not_found("Could not find results_id")
        ELSE jsonify(results_status_found[1].results_id,
                     results_status_found[1].status,
                     results_status_found[1].msg)

\* what GET /parallels/status/<results_id>/ answers
status_response(results_id) ==
    LET results_status_found == find(results_status, "results_id", {results_id})
    IN  IF results_status_found = <<>>
        THEN not_found("Could not find results_id")
        ELSE jsonify(results_status_found[1].results_id,
                     results_status_found[1].status,
                     results_status_found[1].msg)

\* every Match of the Store, whatever MatchSet it belongs to
matches_of_any(match_set) == matches

\* a MatchSet lookup that leaves out the id filter
match_set_lookup_any(status) == match_sets

\* the MatchSet lookup by the status record's match_set_id
match_set_lookup(status) == find(match_sets, "id", {ObjectId(status.match_set_id)})

\* the Match records retrieve_results puts in the payload
matches_of(match_set) == find(matches, "match_set", {ObjectId(match_set.id)})

\* a results handler that answers only for a job whose status is Done
results_response_gated(statuses, results_id) ==
    LET results_status_found == find(statuses, "results_id", {results_id})
    IN  IF results_status_found = <<>>
        THEN not_found("Could not find results_id")
        ELSE IF results_status_found[1].status # "Done"
        THEN not_found("Results are not ready")
        ELSE LET match_set_found == match_set_lookup(results_status_found[1])
             IN  IF match_set_found = <<>>
                 THEN not_found("Could not find MatchSet")
                 ELSE LET ms == matches_of(match_set_found[1])
                          payload ==
                              [data |-> match_set_found[1].parameters,
                               parallels |-> [i \in DOMAIN ms |-> json_encode(ms[i])]]
                      IN  [kind |-> "gzip", status_code |-> 200, status |-> "200 OK",
                           mimetype |-> "application/json",
                           headers |-> [ContentEncoding |-> "gzip"],
                           body |-> compress(encode(dumps(payload)))]

\* what GET /parallels/<results_id>/ answers when the ResultsStatus
\* collection holds `statuses`
results_response_over(statuses, results_id) ==
    LET results_status_found == find(statuses, "results_id", {results_id})
    IN  IF results_status_found = <<>>
        THEN not_found("Could not find results_id")
        ELSE LET match_set_found == match_set_lookup(results_status_found[1])
             IN  IF match_set_found = <<>>
                 THEN not_found("Could not find MatchSet")
                 ELSE LET ms == matches_of(match_set_found[1])
                          payload ==
                              [data |-> match_set_found[1].parameters,
                               parallels |-> [i \in DOMAIN ms |-> json_encode(ms[i])]]
                      IN  [kind |-> "gzip", status_code |-> 200, status |-> "200 OK",
                           mimetype |-> "application/json",
                           headers |-> [ContentEncoding |-> "gzip"],
                           body |-> compress(encode(dumps(payload)))]

\* what GET /parallels/<results_id>/ answers
results_response(results_id) == results_response_over(results_status, results_id)

retrieve_status(results_id) ==
    /\ request = NoCall
    /\ request' = [op |-> "retrieve_status", arg |-> results_id]
    /\ response' = status_response(results_id)
    /\ UNCHANGED <<queue, store, admitted, rejected, taken>>

\* a results handler that hands the results out once: it drops the status
\* record of the results it has delivered
retrieve_results_consuming(results_id) ==
    /\ request = NoCall
    /\ request' = [op |-> "retrieve_results", arg |-> results_id]
    /\ response' = results_response(results_id)
    /\ results_status' =
           IF results_response(results_id).status_code = 200
           THEN SelectSeq(results_status, LAMBDA doc : doc.results_id # results_id)
           ELSE results_status
    /\ UNCHANGED <<queue, match_sets, matches, admitted, rejected, taken>>

retrieve_results(results_id) ==
    /\ request = NoCall
    /\ request' = [op |-> "retrieve_results", arg |-> results_id]
    /\ response' = results_response(results_id)
    /\ UNCHANGED <<queue, store, admitted, rejected, taken>>

\* the response is sent and the request context torn down
Return ==
    /\ request # NoCall
    /\ request' = NoCall
    /\ response' = NoResponse
    /\ UNCHANGED <<queue, store, admitted, rejected, taken>>

(***************************************************************************)
(* The request payloads the model submits.                                 *)
(***************************************************************************)
Drop(d, k) == [x \in DOMAIN d \ {k} |-> d[x]]
Restrict(d, K) == [x \in DOMAIN d \cap K |-> d[x]]

BaseSource == [object_id |-> "t1", units |-> "line"]
BaseTarget == [object_id |-> "t2", units |-> "phrase"]
BaseMethod ==
    [name |-> "original", feature |-> "lemma", stopwords |-> "[]",
     freq_basis |-> "corpus", max_distance |-> "10", distance_basis |-> "frequency"]
BaseRequest == [source |-> BaseSource, target |-> BaseTarget, method |-> BaseMethod]

SourceSpecs ==
    {BaseSource,
     Drop(BaseSource, "object_id"),
     Drop(BaseSource, "units"),
     [BaseSource EXCEPT !["units"] = "word"],
     [BaseSource EXCEPT !["object_id"] = "t9"],
     [BaseSource EXCEPT !["object_id"] = "zz"],
     [object_id |-> "t9", units |-> "word"],
     [object_id |-> "t2", units |-> "phrase"]}

TargetSpecs ==
    {BaseTarget,
     [BaseTarget EXCEPT !["object_id"] = "t1"],
     [BaseTarget EXCEPT !["units"] = "line"],
     Drop(BaseTarget, "object_id"),
     Drop(BaseTarget, "units"),
     [BaseTarget EXCEPT !["units"] = "word"],
     [BaseTarget EXCEPT !["units"] = "verse"],
     [BaseTarget EXCEPT !["object_id"] = "t9"],
     [BaseTarget EXCEPT !["object_id"] = "t8"],
     [object_id |-> "t9", units |-> "word"]}

Methods ==
    {BaseMethod,
     [BaseMethod EXCEPT !["feature"] = "form"],
     Drop(BaseMethod, "name"),
     [BaseMethod EXCEPT !["name"] = "vanilla"],
     Drop(BaseMethod, "feature"),
     Drop(Drop(BaseMethod, "feature"), "stopwords"),
     Drop(Drop(BaseMethod, "name"), "feature"),
     Drop([BaseMethod EXCEPT !["name"] = "vanilla"], "feature")}

\* every payload the validation is checked on
Requests ==
    {[source |-> s, target |-> t, method |-> m] :
        s \in SourceSpecs, t \in TargetSpecs, m \in Methods}
    \cup {Restrict(BaseRequest, K) : K \in SUBSET requireds}

\* the payloads submitted while the whole service runs: the valid one, and
\* one for each way validation can end
ServiceRequests ==
    {BaseRequest,
     Restrict(BaseRequest, {"source", "method"}),
     [BaseRequest EXCEPT !["source"] = Drop(BaseSource, "object_id")],
     [BaseRequest EXCEPT !["source"] = Drop(BaseSource, "units")],
     [BaseRequest EXCEPT !["target"]["units"] = "word"],
     [BaseRequest EXCEPT !["source"]["object_id"] = "zz"],
     [BaseRequest EXCEPT !["target"]["object_id"] = "t9"],
     [BaseRequest EXCEPT !["method"] = Drop(BaseMethod, "name")],
     [BaseRequest EXCEPT !["method"]["name"] = "vanilla"],
     [BaseRequest EXCEPT !["method"] = Drop(BaseMethod, "feature")]}

(***************************************************************************)
(* The Worker (outside the repository): it takes jobs off the queue and    *)
(* writes ResultsStatus, MatchSet and Match records.                       *)
(***************************************************************************)
MatchSetIds == {"m1", "m2"}
StatusValues ==
    {[status |-> "Initialized", msg |-> ""],
     [status |-> "Done", msg |-> "Done in 3 s"]}

StoreSize == Len(results_status) + Len(match_sets) + Len(matches)

WorkerDequeue ==
    /\ queue # <<>>
    /\ queue' = Tail(queue)
    /\ taken' = taken \cup {Head(queue)}
    /\ UNCHANGED <<store, request, response, admitted, rejected>>

\* insert the job's ResultsStatus record, or update it in place
WorkerWriteStatus ==
    \E job \in taken, v \in StatusValues, ms \in {None} \cup MatchSetIds :
        LET rec == [results_id |-> job.results_id, status |-> v.status,
                    msg |-> v.msg, match_set_id |-> ms]
            at == {i \in DOMAIN results_status :
                      results_status[i].results_id = job.results_id}
        IN  /\ at = {} => StoreSize < MaxRecords
            /\ results_status' =
                   IF at = {} THEN Append(results_status, rec)
                   ELSE [i \in DOMAIN results_status |->
                            IF i \in at THEN rec ELSE results_status[i]]
            /\ UNCHANGED <<queue, match_sets, matches, request, response,
                           admitted, rejected, taken>>

\* insert the MatchSet of a finished search
WorkerWriteMatchSet ==
    \E job \in taken, ms \in MatchSetIds :
        /\ StoreSize < MaxRecords
        /\ \A i \in DOMAIN match_sets : match_sets[i].id # ms
        /\ match_sets' =
               Append(match_sets,
                      [id |-> ms,
                       parameters |-> [feature |-> job.params.feature,
                                       unit_type |-> job.params.unit_type]])
        /\ UNCHANGED <<queue, results_status, matches, request, response,
                       admitted, rejected, taken>>

\* insert one Match of a search
WorkerWriteMatch ==
    \E ms \in MatchSetIds :
        /\ taken # {}
        /\ StoreSize < MaxRecords
        /\ matches' =
               Append(matches,
                      [id |-> ToString(Len(matches) + 1), match_set |-> ms,
                       text |-> "arma virumque"])
        /\ UNCHANGED <<queue, results_status, match_sets, request, response,
                       admitted, rejected, taken>>

(***************************************************************************)
(* The specifications.                                                     *)
(***************************************************************************)
Init ==
    /\ queue = <<>>
    /\ results_status = <<>>
    /\ match_sets = <<>>
    /\ matches = <<>>
    /\ request = NoCall
    /\ response = NoResponse
    /\ admitted = <<>>
    /\ rejected = {}
    /\ taken = {}

Next ==
    \/ \E received \in ServiceRequests : submit_search(received)
    \/ \E results_id \in JobIds : retrieve_status(results_id)
    \/ \E results_id \in JobIds : retrieve_results(results_id)
    \/ Return
    \/ WorkerDequeue
    \/ WorkerWriteStatus
    \/ WorkerWriteMatchSet
    \/ WorkerWriteMatch

\* the whole service: handlers called one after another, the Worker running
\* beside them
Spec == Init /\ [][Next]_vars

\* validation, a function of the payload and the texts alone: any payload
\* of Requests submitted to the service as started
NextValidate == \E received \in Requests : submit_search(received)

SpecValidate == Init /\ [][NextValidate]_vars

\* The Store outlives the service: what earlier Workers can have left in it.
SeqsUpTo(S, n) == UNION {[1..k -> S] : k \in 0..n}

StoredStatuses ==
    {s \in SeqsUpTo([results_id : JobIds, status : {"Initialized", "Done"},
                     msg : {"Done in 3 s"}, match_set_id : {None} \cup MatchSetIds],
                    MaxStoredStatus) :
        \A i, j \in DOMAIN s : s[i].results_id = s[j].results_id => i = j}

StoredParameters(ms) ==
    IF ms = "m1" THEN [feature |-> "lemma", unit_type |-> "line"]
    ELSE [feature |-> "form", unit_type |-> "phrase"]

StoredMatchSets ==
    {[i \in DOMAIN ids |-> [id |-> ids[i], parameters |-> StoredParameters(ids[i])]] :
        ids \in UNION {Orderings(S) : S \in SUBSET MatchSetIds}}

StoredMatches ==
    {[i \in DOMAIN of |-> [id |-> ToString(i), match_set |-> of[i],
                           text |-> "arma virumque"]] :
        of \in SeqsUpTo(MatchSetIds, MaxStoredMatches)}

InitStore ==
    /\ queue = <<>>
    /\ results_status \in StoredStatuses
    /\ match_sets \in StoredMatchSets
    /\ matches \in StoredMatches
    /\ request = NoCall
    /\ response = NoResponse
    /\ admitted = <<>>
    /\ rejected = {}
    /\ taken = {}

\* the two read handlers over any such Store
NextStore ==
    \/ \E results_id \in JobIds : retrieve_status(results_id)
    \/ \E results_id \in JobIds : retrieve_results(results_id)
    \/ Return

SpecStore == InitStore /\ [][NextStore]_vars

(***************************************************************************)
(* submit_search served by several threads at once.  Here request and      *)
(* response hold one entry per thread, and a call is followed through its  *)
(* three parts: validation (lines 47-108), the enqueue attempt (lines      *)
(* 110-126) and the return (lines 127-133).  admitted and rejected record  *)
(* the identifiers drawn, by the outcome of their put.                     *)
(***************************************************************************)
Threads == 1..MaxThreads

\* the payloads submitted side by side: a valid one and an invalid one
ConcurrentRequests ==
    {BaseRequest, [BaseRequest EXCEPT !["method"] = Drop(BaseMethod, "name")]}

\* threads that have validated their payload and not yet called queue_search
Validated == {t \in Threads : request[t].op = "submit_search" /\ request[t].at = "validated"}

\* a handler that hands out its 201 whatever queue_search did
respond_always_created(full, results_id, received) == created(results_id)

\* lines 127-133: the except branch on queue.Full, else the 201 built before
respond(full, results_id, received) ==
    IF full THEN on_queue_full(received) ELSE created(results_id)

\* a handler that goes back to the enqueue when the queue was full
after_put_retry(full) == IF full THEN "validated" ELSE "enqueued"

\* where the handler goes after queue_search: to its return, on both paths
after_put(full) == "enqueued"

\* lines 47-108 in thread t
submit_search_validate(t, received) ==
    \E missing \in Orderings(missing_keys(requireds, received)),
       method_missing \in Orderings(method_missing_keys(received)) :
        LET checked == validate(received, missing, method_missing)
        IN  /\ request[t] = NoCall
            /\ IF checked.kind # "valid"
               THEN /\ request' = [request EXCEPT ![t] =
                           [op |-> "submit_search", arg |-> received, at |-> "returned",
                            attempts |-> 0, results_id |-> None]]
                    /\ response' = [response EXCEPT ![t] = checked]
               ELSE /\ Cardinality(uuid4) > Cardinality(Validated)
                    /\ request' = [request EXCEPT ![t] =
                           [op |-> "submit_search", arg |-> received, at |-> "validated",
                            attempts |-> 0, results_id |-> None]]
                    /\ UNCHANGED response
            /\ UNCHANGED <<queue, store, admitted, rejected, taken>>

\* lines 110-126 in thread t: the identifier is drawn and queue_search called
submit_search_enqueue(t) ==
    \E results_id \in uuid4 :
        LET put == queue_search(queue, job_of(results_id, request[t].arg))
        IN  /\ request[t].op = "submit_search"
            /\ request[t].at = "validated"
            /\ queue' = put.queue
            /\ request' = [request EXCEPT ![t] =
                   [@ EXCEPT !.at = after_put(put.full), !.attempts = @ + 1,
                             !.results_id = results_id]]
            /\ IF put.full
               THEN rejected' = rejected \cup {results_id} /\ UNCHANGED admitted
               ELSE admitted' = Append(admitted, results_id) /\ UNCHANGED rejected
            /\ UNCHANGED <<store, response, taken>>

\* lines 127-133 in thread t
submit_search_return(t) ==
    /\ request[t].op = "submit_search"
    /\ request[t].at = "enqueued"
    /\ request' = [request EXCEPT ![t] = [@ EXCEPT !.at = "returned"]]
    /\ response' = [response EXCEPT ![t] =
           respond(request[t].results_id \in rejected, request[t].results_id,
                   request[t].arg)]
    /\ UNCHANGED <<queue, store, admitted, rejected, taken>>

\* the response of thread t is sent, and the thread is free for another call
thread_done(t) ==
    /\ request[t].op = "submit_search"
    /\ request[t].at = "returned"
    /\ request' = [request EXCEPT ![t] = NoCall]
    /\ response' = [response EXCEPT ![t] = NoResponse]
    /\ UNCHANGED <<queue, store, admitted, rejected, taken>>

InitConcurrent ==
    /\ queue = <<>>
    /\ results_status = <<>>
    /\ match_sets = <<>>
    /\ matches = <<>>
    /\ request = [t \in Threads |-> NoCall]
    /\ response = [t \in Threads |-> NoResponse]
    /\ admitted = <<>>
    /\ rejected = {}
    /\ taken = {}

NextConcurrent ==
    \/ \E t \in Threads, received \in ConcurrentRequests : submit_search_validate(t, received)
    \/ \E t \in Threads : submit_search_enqueue(t)
    \/ \E t \in Threads : submit_search_return(t)
    \/ \E t \in Threads : thread_done(t)
    \/ WorkerDequeue

SpecConcurrent == InitConcurrent /\ [][NextConcurrent]_vars

\* a thread that has begun a part of the handler gets to finish it; nothing
\* is assumed of the Worker or of the clients
SpecConcurrentFair ==
    SpecConcurrent
        /\ \A t \in Threads : WF_vars(submit_search_enqueue(t)) /\ WF_vars(submit_search_return(t))

(***************************************************************************)
(* The validation rules, as the specification words them.                  *)
(***************************************************************************)
HasAllKeys(r) == requireds \subseteq DOMAIN r

SideFails(side) ==
    \/ "object_id" \notin DOMAIN side
    \/ "units" \notin DOMAIN side
    \/ side["units"] \notin {"line", "phrase"}

UnitSpecsFail(r) ==
    HasAllKeys(r) /\ (SideFails(r["source"]) \/ SideFails(r["target"]))

SideUnresolved(side) ==
    "object_id" \in DOMAIN side /\ side["object_id"] \notin TextIds

HasUnresolvedId(r) ==
    HasAllKeys(r) /\ (SideUnresolved(r["source"]) \/ SideUnresolved(r["target"]))

NoMethodName(r) == HasAllKeys(r) /\ "name" \notin DOMAIN r["method"]

OriginalParams == {"feature", "stopwords", "freq_basis", "max_distance", "distance_basis"}

MissingMethodParam(r) ==
    /\ HasAllKeys(r)
    /\ "name" \in DOMAIN r["method"]
    /\ r["method"]["name"] = "original"
    /\ ~(OriginalParams \subseteq DOMAIN r["method"])

FailsARule(r) ==
    \/ ~HasAllKeys(r)
    \/ UnitSpecsFail(r)
    \/ HasUnresolvedId(r)
    \/ NoMethodName(r)
    \/ MissingMethodParam(r)

PassesValidation(r) == ~FailsARule(r) /\ r["method"]["name"] = "original"

\* a step in which submit_search serves a payload
SubmitStep == request = NoCall /\ request'.op = "submit_search"

IdsIn(jobs) == {j.results_id : j \in jobs}

(***************************************************************************)
(* Claims.                                                                 *)
(***************************************************************************)

\* C1: a submission that fails any validation rule (missing top-level key,
\* missing object_id or units, unrecognized units, unresolved object_id,
\* missing method name, missing required method parameter) leaves the job
\* queue as it was, and admits nothing, whatever was submitted before.
C1_InvalidSubmissionLeavesQueue ==
    [][(SubmitStep /\ FailsARule(request'.arg))
          => (queue' = queue /\ admitted' = admitted /\ response'.kind # "created")]_vars

\* C1 witness: a failing payload answered 400 while a job waits in the queue
C1_Witness ==
    /\ request.op = "submit_search"
    /\ FailsARule(request.arg)
    /\ response.kind = "error"
    /\ Len(queue) = 1

\* C2: a valid submission that meets a full queue is answered with a
\* server-busy 5xx response that echoes the request data and advises a retry.
C2_QueueFullIsBackpressure ==
    [][(SubmitStep /\ PassesValidation(request'.arg) /\ Len(queue) >= QueueCap)
          => /\ response'.kind = "error"
             /\ response'.status_code \in 500..599
             /\ response'.data = request'.arg
             /\ response'.message # <<>>]_vars

\* C3: a submission rejected because the queue is full leaves no state
\* behind: queue and Store are unchanged by it, its identifier is in no
\* queued or dequeued job and in no ResultsStatus record, and a status or
\* results query for that identifier is answered 404.
C3_RejectedLeavesNothing ==
    /\ [][(rejected' # rejected) => (queue' = queue /\ store' = store /\ taken' = taken)]_vars
    /\ [](\A id \in rejected :
            /\ id \notin IdsIn(Range(queue)) \cup IdsIn(taken)
            /\ \A i \in DOMAIN results_status : results_status[i].results_id # id
            /\ (request.op \in {"retrieve_status", "retrieve_results"} /\ request.arg = id)
                  => response.status_code = 404)

\* C3 witness: the status of a rejected identifier is asked for while the
\* Store holds a record of another job
C3_Witness ==
    /\ request.op = "retrieve_status"
    /\ request.arg \in rejected
    /\ results_status # <<>>

\* C4: a payload whose source, target and object ids are valid and whose
\* method.name is present but not registered is answered with a 400-class
\* error whose message names the unrecognized method, never with a fault.
C4_UnregisteredMethodIs400 ==
    (/\ request.op = "submit_search"
     /\ ~FailsARule(request.arg)
     /\ request.arg["method"]["name"] # "original")
        => /\ response.kind = "error"
           /\ response.status_code \in 400..499
           /\ request.arg["method"]["name"] \in Range(response.message)

\* The violations of each validation stage, and what reports them.
StageViolated(r, k) ==
    CASE k = 1 -> ~HasAllKeys(r)
      [] k = 2 -> UnitSpecsFail(r)
      [] k = 3 -> HasUnresolvedId(r)
      [] k = 4 -> NoMethodName(r)
      [] k = 5 -> MissingMethodParam(r)

Stages == 1..5

\* message holds the tokens of `phrase` one after another
Says(message, phrase) ==
    \E i \in 0..(Len(message) - Len(phrase)) :
        \A j \in DOMAIN phrase : message[i + j] = phrase[j]

SideReported(r, side, message) ==
    /\ "object_id" \notin DOMAIN r[side] => Says(message, <<side, " is missing object_id.">>)
    /\ "units" \notin DOMAIN r[side] => Says(message, <<side, " is missing units.">>)
    /\ ("units" \in DOMAIN r[side] /\ r[side]["units"] \notin {"line", "phrase"})
          => Says(message, <<side, " has unrecognized units: ", r[side]["units"]>>)

\* message reports every violation payload r has at stage k
StageReported(r, k, message) ==
    CASE k = 1 -> \A key \in requireds \ DOMAIN r : key \in Range(message)
      [] k = 2 -> SideReported(r, "source", message) /\ SideReported(r, "target", message)
      [] k = 3 -> \A side \in {"source", "target"} :
                      SideUnresolved(r[side]) => r[side]["object_id"] \in Range(message)
      [] k = 4 -> Says(message, <<"No specified method name.">>)
      [] k = 5 -> \A key \in OriginalParams \ DOMAIN r["method"] : key \in Range(message)

EarliestStage(r) == CHOOSE k \in Stages :
    StageViolated(r, k) /\ \A j \in Stages : StageViolated(r, j) => k <= j

C6_AdmissionEnqueuesOneJob ==
    /\ [][(SubmitStep /\ PassesValidation(request'.arg) /\ Len(queue) < QueueCap)
            => \E id \in JobIds :
                  /\ response'.kind = "created"
                  /\ response'.status_code = 201
                  /\ response'.headers["Location"] = <<"/parallels", "/", id, "/">>
                  /\ Len(queue') = Len(queue) + 1
                  /\ SubSeq(queue', 1, Len(queue)) = queue
                  /\ queue'[Len(queue')].results_id = id
                  /\ admitted' = Append(admitted, id)]_vars
    /\ [][(Len(queue') > Len(queue) \/ admitted' # admitted)
            => (SubmitStep /\ response'.kind = "created"
                /\ Len(queue') = Len(queue) + 1 /\ Len(admitted') = Len(admitted) + 1)]_vars
    /\ [](/\ Range(admitted) = IdsIn(Range(queue)) \cup IdsIn(taken)
          /\ Len(admitted) = Len(queue) + Cardinality(taken)
          /\ \A i, j \in DOMAIN queue : queue[i].results_id = queue[j].results_id => i = j)

\* C6 witness: a 201 just returned, its job in the queue
C6_Witness ==
    /\ response.kind = "created"
    /\ Len(queue) = 1
    /\ response.headers["Location"] = <<"/parallels", "/", queue[1].results_id, "/">>

\* C7: no handler writes a ResultsStatus record; the status of an identifier
\* without a record (an admitted job the Worker has not written about yet)
\* is answered 404, and once a record exists it is answered 200 with the
\* record's results_id, status and message unchanged.
C7_StatusOnlyFromWorker ==
    /\ [][(request' # request) => (results_status' = results_status)]_vars
    /\ [](\A i \in DOMAIN results_status : results_status[i].results_id \in IdsIn(taken))
    /\ [][(request = NoCall /\ request'.op = "retrieve_status")
            => LET at == {i \in DOMAIN results_status :
                             results_status[i].results_id = request'.arg}
               IN  /\ at = {} => (response'.status_code = 404 /\ response'.kind = "text")
                   /\ \A i \in at :
                          /\ response'.status_code = 200
                          /\ response'.body = [results_id |-> results_status[i].results_id,
                                               status |-> results_status[i].status,
                                               message |-> results_status[i].msg]]_vars

\* C7 witness: the status of a job still waiting in the queue was asked for
\* and answered 404
C7_Witness ==
    /\ request.op = "retrieve_status"
    /\ request.arg \in IdsIn(Range(queue))
    /\ response.status_code = 404

\* The records a results query depends on.
StatusOf(id) == {i \in DOMAIN results_status : results_status[i].results_id = id}
MatchSetAt(ms) == {i \in DOMAIN match_sets : match_sets[i].id = ms}
Resolves(id) ==
    \E i \in StatusOf(id) :
        results_status[i].match_set_id # None
            /\ MatchSetAt(results_status[i].match_set_id) # {}

\* C8: retrieve_results answers 404, without a fault, when the identifier has
\* no ResultsStatus record, when the record's match_set_id is unset and when
\* it references no MatchSet; it answers 200 only when the record exists and
\* its match_set_id resolves to a MatchSet.
C8_ResultsNotFoundCases ==
    (request.op = "retrieve_results")
        => /\ response.kind # "fault"
           /\ ~Resolves(request.arg) => response.status_code = 404
           /\ Resolves(request.arg) => response.status_code = 200

\* C8 witness: a 404 for a record whose match_set_id names a MatchSet that
\* is not in the Store, while another MatchSet is
C8_Witness ==
    /\ request.op = "retrieve_results"
    /\ response.status_code = 404
    /\ match_sets # <<>>
    /\ \E i \in StatusOf(request.arg) :
          results_status[i].match_set_id # None
              /\ MatchSetAt(results_status[i].match_set_id) = {}

\* C9: the body of a 200 from retrieve_results, decompressed, decoded and
\* parsed, is {data: the MatchSet's parameters, parallels: L}, L being the
\* field mappings of the Match records that reference the MatchSet, each
\* once, in Store order, and of no other Match.
C9_ResultsRoundTrip ==
    (request.op = "retrieve_results" /\ response.status_code = 200)
        => \E i \in StatusOf(request.arg) :
             \E k \in MatchSetAt(results_status[i].match_set_id) :
               LET mine == SelectSeq(matches, LAMBDA m : m.match_set = match_sets[k].id)
                   got == loads(decode(decompress(response.body)))
               IN  /\ DOMAIN got = {"data", "parallels"}
                   /\ got["data"] = match_sets[k].parameters
                   /\ Len(got["parallels"]) = Len(mine)
                   /\ \A n \in DOMAIN mine :
                          got["parallels"][n] =
                              [object_id |-> mine[n].id, match_set |-> mine[n].match_set,
                               text |-> mine[n].text]

\* C9 witness: results with two parallels, a Match of another MatchSet lying
\* between them in the Store
C9_Witness ==
    /\ request.op = "retrieve_results"
    /\ response.status_code = 200
    /\ Len(matches) = 3
    /\ matches[1].match_set = matches[3].match_set
    /\ matches[2].match_set # matches[1].match_set
    /\ \E i \in StatusOf(request.arg) :
          results_status[i].match_set_id = matches[1].match_set

C11_MissingKeysListedExactly ==
    (request.op = "submit_search" /\ ~HasAllKeys(request.arg))
        => LET M == requireds \ DOMAIN request.arg
               n == Cardinality(M)
               msg == response.message
           IN  /\ response.kind = "error"
               /\ response.status_code = 400
               /\ response.data = request.arg
               /\ Len(msg) = 2 * n
               /\ msg[1] = "The request data payload is missing the following required key(s): "
               /\ {msg[2 * i] : i \in 1..n} = M
               /\ \A i \in 1..(n - 1) : msg[2 * i + 1] = ", "
               /\ queue = <<>>
               /\ admitted = <<>>

\* C11 witness: a payload that has target alone was answered
C11_Witness ==
    /\ request.op = "submit_search"
    /\ DOMAIN request.arg = {"target"}
    /\ response.kind = "error"

\* the side has a units value that is neither 'line' nor 'phrase'
SideOffends(side) ==
    "units" \in DOMAIN side /\ side["units"] \notin {"line", "phrase"}

\* C12: a payload with source, target and method in which the units value of
\* a side is present and is neither 'line' nor 'phrase' is answered 400, the
\* message naming each such side together with the value it gave, both sides
\* in the one response when both offend; no job is admitted.
C12_UnrecognizedUnitsNamed ==
    (/\ request.op = "submit_search"
     /\ HasAllKeys(request.arg)
     /\ (SideOffends(request.arg["source"]) \/ SideOffends(request.arg["target"])))
        => /\ response.kind = "error"
           /\ response.status_code = 400
           /\ \A side \in {"source", "target"} :
                  SideOffends(request.arg[side])
                      => Says(response.message,
                              <<side, " has unrecognized units: ", request.arg[side]["units"]>>)
           /\ queue = <<>>
           /\ admitted = <<>>

\* C12 witness: both sides offend, each with a value of its own
C12_Witness ==
    /\ request.op = "submit_search"
    /\ HasAllKeys(request.arg)
    /\ SideOffends(request.arg["source"])
    /\ SideOffends(request.arg["target"])
    /\ request.arg["source"]["units"] # request.arg["target"]["units"]
    /\ response.kind = "error"

\* the object ids of the payload that name no text of the Store
UnresolvedIds(r) ==
    {r[side]["object_id"] : side \in {s \in {"source", "target"} : SideUnresolved(r[s])}}

\* the ids a not-found message lists
IdsListed(message) ==
    Range(message)
        \ {"Unable to find the following object_id(s) among the texts in the database:\n\t",
           "\n\t"}

\* C13: a payload with well-formed unit specs in which the source object_id,
\* the target object_id or both name no text of the Store is answered with
\* one 400 whose message lists exactly the unresolved ids, also when source
\* and target carry the same id; no job is admitted.
C13_UnresolvedIdsListedExactly ==
    (/\ request.op = "submit_search"
     /\ HasAllKeys(request.arg)
     /\ ~UnitSpecsFail(request.arg)
     /\ UnresolvedIds(request.arg) # {})
        => /\ response.kind = "error"
           /\ response.status_code = 400
           /\ IdsListed(response.message) = UnresolvedIds(request.arg)
           /\ queue = <<>>
           /\ admitted = <<>>

\* the calls of submit_search that have returned
Returned == {t \in Threads : request[t].op = "submit_search" /\ request[t].at = "returned"}

\* how many times the job of identifier id is in the queue or with the Worker
Copies(id) ==
    Cardinality({i \in DOMAIN queue : queue[i].results_id = id})
        + Cardinality({j \in taken : j.results_id = id})

\* C14: with submit_search served by several threads at once and the Worker
\* dequeuing beside them, the queue never holds more jobs than its capacity;
\* a job is in the queue or with the Worker exactly once for each successful
\* enqueue, and leaves the queue only by a dequeue; and a call returns 201
\* exactly when its own job was enqueued, the Location naming that job.
C14_ConcurrentAdmission ==
    /\ [](Len(queue) <= QueueCap)
    /\ [](/\ \A id \in Range(admitted) : Copies(id) = 1
          /\ \A id \in JobIds \ Range(admitted) : Copies(id) = 0
          /\ \A i, j \in DOMAIN admitted : admitted[i] = admitted[j] => i = j)
    /\ [][\A j \in Range(queue) : j \in Range(queue') \/ (j = Head(queue) /\ j \in taken')]_vars
    /\ [](\A t \in Returned :
            /\ response[t].kind = "created" <=>
                   (request[t].results_id # None /\ Copies(request[t].results_id) = 1)
            /\ response[t].kind = "created" =>
                   response[t].headers["Location"]
                       = <<"/parallels", "/", request[t].results_id, "/">>)

\* C14 witness: two calls in flight at once have both returned, one with 201
\* and its job in the queue, the other turned away by the full queue
C14_Witness ==
    /\ DOMAIN request = Threads
    /\ Returned = Threads
    /\ \E t, u \in Threads :
          /\ response[t].kind = "created"
          /\ request[t].results_id \in IdsIn(Range(queue))
          /\ request[u].results_id \in rejected
          /\ response[u].kind # "created"

\* thread t is serving a call of submit_search that has not returned
Serving(t) == request[t].op = "submit_search" /\ request[t].at # "returned"

\* C15: every call of submit_search returns a response, having called
\* queue_search at most once, whatever the other threads do and even if the
\* queue is full and the Worker never dequeues: a call that met a full queue
\* goes to its return, not back to the enqueue, and a call that enqueued
\* returns without waiting for the Worker.
C15_SubmitTerminates ==
    /\ [](\A t \in Threads : request[t].op = "submit_search" => request[t].attempts <= 1)
    /\ \A t \in Threads :
          Serving(t) ~> (request[t].op = "submit_search" /\ request[t].at = "returned")

\* C15 witness: a call has returned after one enqueue attempt on a full
\* queue from which the Worker has taken nothing
C15_Witness ==
    /\ DOMAIN request = Threads
    /\ Len(queue) = QueueCap
    /\ taken = {}
    /\ \E t \in Returned :
          /\ request[t].attempts = 1
          /\ request[t].results_id \in rejected
          /\ response[t].kind # "none"

\* a step in which one of the two read handlers serves a call
ReadStep ==
    request = NoCall /\ request'.op \in {"retrieve_status", "retrieve_results"}

\* C16: retrieve_status and retrieve_results leave every ResultsStatus,
\* MatchSet and Match record and the job queue as they were, whatever they
\* answer; submit_search leaves every such record as it was; so a step that
\* changes a record is no handler's step.
C16_HandlersReadOnly ==
    /\ [][ReadStep => (store' = store /\ queue' = queue)]_vars
    /\ [][SubmitStep => store' = store]_vars
    /\ [][store' # store => (request' = request /\ response' = response)]_vars

\* C16 witness: results were delivered from a Store holding the records of
\* a finished job while another job waits in the queue
C16_Witness ==
    /\ request.op = "retrieve_results"
    /\ response.status_code = 200
    /\ results_status # <<>>
    /\ match_sets # <<>>
    /\ queue # <<>>

\* an identifier that uuid4 never hands out
UnknownId == "0"

\* identifiers that no call has ever drawn
NeverExisted == ({UnknownId} \cup JobIds) \ (Range(admitted) \cup rejected)

\* admitted jobs that have no ResultsStatus record yet
NotYetReported == {id \in Range(admitted) : StatusOf(id) = {}}

\* C17: for an identifier that never existed and the identifier of an
\* admitted job that has no status record yet, retrieve_status answers with
\* the same status code and body, and so does retrieve_results; what a
\* client was answered for such a job is what it would have been answered
\* for an identifier that never existed.
C17_NotFoundIndistinguishable ==
    \A b \in NotYetReported :
        /\ \A a \in NeverExisted :
              /\ status_response(a) = status_response(b)
              /\ results_response(a) = results_response(b)
              /\ status_response(a).status_code = 404
              /\ results_response(a).status_code = 404
        /\ (request.op = "retrieve_status" /\ request.arg = b)
              => response = status_response(UnknownId)
        /\ (request.op = "retrieve_results" /\ request.arg = b)
              => response = results_response(UnknownId)

\* C17 witness: the results of an admitted job without a record were asked
\* for, while another identifier has never been drawn and the Store holds
\* a MatchSet
C17_Witness ==
    /\ request.op = "retrieve_results"
    /\ request.arg \in NotYetReported
    /\ response.status_code = 404
    /\ NeverExisted \cap JobIds # {}
    /\ match_sets # <<>>

\* status and message strings a Worker can write
AnyStatus ==
    {[status |-> "Initialized", msg |-> ""],
     [status |-> "Done", msg |-> "Done in 3 s"],
     [status |-> "Failed", msg |-> "out of memory"]}

\* the ResultsStatus collection with the status and message of the record
\* of job id replaced, everything else as it is
Restatus(id, v) ==
    [i \in DOMAIN results_status |->
        IF results_status[i].results_id = id
        THEN [results_status[i] EXCEPT !.status = v.status, !.msg = v.msg]
        ELSE results_status[i]]

\* C18: what retrieve_results answers does not depend on the status and
\* message strings of the job's ResultsStatus record: the response it
\* returned, outcome and payload, is the one it returns over any Store that
\* differs from this one in those strings alone, and a record whose
\* match_set_id resolves yields the results whatever its status.
C18_ResultsNotGatedOnStatus ==
    (request.op = "retrieve_results")
        => /\ \A v \in AnyStatus :
                  response = results_response_over(Restatus(request.arg, v), request.arg)
           /\ Resolves(request.arg) => (response.status_code = 200 /\ response.kind = "gzip")

\* C18 witness: results delivered for a job whose record does not say Done
C18_Witness ==
    /\ request.op = "retrieve_results"
    /\ response.status_code = 200
    /\ \E i \in StatusOf(request.arg) : results_status[i].status = "Initialized"

\* the line each stage's message opens with
Heading(k) ==
    CASE k = 1 -> "The request data payload is missing the following required key(s): "
      [] k = 2 -> "The following errors were found in source and target unit specifications:\n"
      [] k = 3 -> "Unable to find the following object_id(s) among the texts in the database:\n\t"
      [] k = 4 -> "No specified method name."
      [] k = 5 -> "The specified method is missing the following required key(s): "

\* what a side's unit spec shows to stage 2
UnitView(side) ==
    <<"object_id" \in DOMAIN side, "units" \in DOMAIN side,
      IF "units" \in DOMAIN side THEN side["units"] ELSE "">>

\* the part of payload r that stage k looks at
StageView(r, k) ==
    CASE k = 1 -> <<DOMAIN r>>
      [] k = 2 -> <<UnitView(r["source"]), UnitView(r["target"])>>
      [] k = 3 -> <<r["source"]["object_id"], r["target"]["object_id"]>>
      [] k = 4 -> <<>>
      [] k = 5 -> <<DOMAIN r["method"]>>

\* payload r can be answered with the given kind of response and message
CanAnswer(r, kind, message) ==
    \E missing \in Orderings(missing_keys(requireds, r)),
       method_missing \in Orderings(method_missing_keys(r)) :
        LET other == validate(r, missing, method_missing)
        IN  other.kind = kind /\ (kind = "error" => other.message = message)

\* C19: the checks run in the order top-level keys, unit specs, object id
\* resolution, method name, method parameters, and the answer to a payload
\* that fails one comes from the earliest stage it fails and from nothing
\* else: its message opens with that stage's heading and carries no other
\* stage's, any payload failing first at the same stage with the same content
\* there gets the same answer, and a payload without method.name whose
\* earlier stages pass gets exactly 'No specified method name.'.
C19_EarliestStageAlone ==
    (request.op = "submit_search" /\ FailsARule(request.arg))
        => LET r == request.arg
               k == EarliestStage(r)
           IN  /\ response.kind \in {"error", "fault"}
               /\ response.kind = "fault" => k = 3
               /\ response.kind = "error"
                     => /\ response.status_code = 400
                        /\ response.message[1] = Heading(k)
                        /\ \A j \in Stages \ {k} : Heading(j) \notin Range(response.message)
               /\ k = 4 => (response.kind = "error"
                            /\ response.message = <<"No specified method name.">>)
               /\ \A r2 \in Requests :
                      (FailsARule(r2) /\ EarliestStage(r2) = k
                          /\ StageView(r2, k) = StageView(r, k))
                          => CanAnswer(r2, response.kind,
                                       IF response.kind = "error" THEN response.message
                                       ELSE <<>>)

\* C19 witness: a payload that lacks method.name and a method parameter, its
\* earlier stages passing, answered with the one message
C19_Witness ==
    /\ request.op = "submit_search"
    /\ HasAllKeys(request.arg)
    /\ ~UnitSpecsFail(request.arg)
    /\ ~HasUnresolvedId(request.arg)
    /\ DOMAIN request.arg["method"] = OriginalParams \ {"feature"}
    /\ response.kind = "error"
    /\ response.message = <<"No specified method name.">>

\* the Store's text document of the given id
ResolvedText(id) == CHOOSE t \in Range(texts) : t.id = id

\* C20: the job enqueued for an admitted request carries the method name and
\* the parameters texts = [source document, target document], unit_type =
\* source.units, feature, stopwords, frequency_basis = method.freq_basis,
\* max_distance and distance_metric = method.distance_basis, and nothing
\* else: target.units is not in it, so the same request with another
\* target.units has the same descriptor.
C20_DescriptorOfRequest ==
    (request.op = "submit_search" /\ response.kind = "created")
        => LET r == request.arg
               job == queue[Len(queue)]
           IN  /\ Len(queue) = 1
               /\ job.name = r["method"]["name"]
               /\ job.params =
                      [texts |-> <<ResolvedText(r["source"]["object_id"]),
                                   ResolvedText(r["target"]["object_id"])>>,
                       unit_type |-> r["source"]["units"],
                       feature |-> r["method"]["feature"],
                       stopwords |-> r["method"]["stopwords"],
                       frequency_basis |-> r["method"]["freq_basis"],
                       max_distance |-> r["method"]["max_distance"],
                       distance_metric |-> r["method"]["distance_basis"]]
               /\ \A units \in {"line", "phrase"} :
                      descriptor([r EXCEPT !["target"]["units"] = units]) = job.params

\* C20 witness: a job admitted for a request whose source and target differ
\* in both text and units
C20_Witness ==
    /\ request.op = "submit_search"
    /\ response.kind = "created"
    /\ Len(queue) = 1
    /\ request.arg["source"]["units"] # request.arg["target"]["units"]
    /\ request.arg["source"]["object_id"] # request.arg["target"]["object_id"]

====
